---- MODULE Spec2Model ----
(***************************************************************************)
(* GPIO configuration model of src/gpio/mod.rs: the PinFunction and         *)
(* InputPull enumerations, the GPIOConfig container, its Display            *)
(* renderings, and GPIOConfig::load / GPIOConfig::save over one file.       *)
(*                                                                         *)
(* A file's contents are a sequence of JSON tokens.  save produces the      *)
(* tokens serde_json::to_string emits for the derived Serialize impls;      *)
(* load consumes tokens the way serde_json::from_reader drives the derived  *)
(* Deserialize impls (a streaming parser: the first error met wins).        *)
(***************************************************************************)
EXTENDS Integers, Sequences, FiniteSets, TLC

VARIABLES
    config,     \* the caller's in-memory GPIOConfig: its configured_pins sequence
    fs,         \* the file named by `filename`: [exists, contents]
    result,     \* what the most recent call returned
    lastSave,   \* history: the config of the latest successful save, while the file is untouched
    pin         \* the PinFunction value handed to a formatter

vars == <<config, fs, result, lastSave, pin>>

----------------------------------------------------------------------------
(* Bounds *)

\* longest configured_pins sequence the caller builds with push
MaxLen == 2
\* longest configured_pins sequence drawn for the save-then-load law over every variant
MaxPins == 1
\* a failing write_all leaves at most this many tokens behind
MaxWritten == 3

----------------------------------------------------------------------------
(* Values *)

\* Option<T>
None_ == <<>>
Some(x) == <<x>>

\* BCMPinNumber = u8
U8_MAX == 255
BCMPinNumber == 0..U8_MAX

\* enum InputPull, by variant name
InputPull == {"PullUp", "PullDown", "None"}

\* PinLevel = bool
PinLevel == BOOLEAN

\* the payload-free variants of enum PinFunction, by variant name
UnitVariants ==
    {"None", "Power3V3", "Power5V", "Ground",
     "GPCLK0", "GPCLK1", "GPCLK2",
     "I2C1_SDA", "I2C1_SCL", "I2C3_SDA", "I2C3_SCL", "I2C4_SDA", "I2C4_SCL",
     "I2C5_SDA", "I2C5_SCL", "I2C6_SDA", "I2C6_SCL",
     "SPI0_MOSI", "SPI0_MOMI", "SPI0_MISO", "SPI0_SCLK", "SPI0_CE0_N", "SPI0_CE1_N",
     "SPI1_MOSI", "SPI1_MOMI", "SPI1_MISO", "SPI1_SCLK", "SPI1_CE0_N", "SPI1_CE1_N",
     "SPI1_CE2_N",
     "PWM0", "PWM1", "UART0_TXD", "UART0_RXD",
     "PCM_FS", "PCM_DIN", "PCM_DOUT", "PCM_CLK",
     "I2C_EEPROM_ID_SD", "I2C_EEPROM_ID_SC"}

\* the two payload-carrying variants
NewtypeVariants == {"Input", "Output"}

\* a PinFunction value is <<variant name, tuple of the variant's fields>>
Unit(tag) == <<tag, <<>>>>
Input(pull) == <<"Input", <<pull>>>>
Output(level) == <<"Output", <<level>>>>

OptionInputPull == {None_} \cup {Some(p) : p \in InputPull}
OptionPinLevel == {None_} \cup {Some(l) : l \in PinLevel}

PinFunction ==
    {Unit(t) : t \in UnitVariants}
        \cup {Input(p) : p \in OptionInputPull}
        \cup {Output(l) : l \in OptionPinLevel}

\* a default that is not empty, to compare Default against
Default_nonempty == <<<<0, Unit("None")>>>>

\* GPIOConfig::default(): an empty configured_pins
Default == <<>>

----------------------------------------------------------------------------
(* JSON tokens: <<kind, value>> *)

\* punctuation, the literals null / true / false, and " " for a run of whitespace
P(s) == <<"p", s>>
\* a string literal, by its contents
S(s) == <<"s", s>>
\* an integer literal
N(n) == <<"n", n>>
\* a literal with a fraction or an exponent, by its text
Fl(s) == <<"f", s>>

IsP(t, s) == t[1] = "p" /\ t[2] = s

----------------------------------------------------------------------------
(* serde_json::to_string over the derived Serialize impls (compact form) *)

\* a serializer that writes Some(InputPull::None) as null, to compare against
ser_OptionInputPull_nulling(o) ==
    IF o = None_ \/ o = Some("None") THEN <<P("null")>> ELSE <<S(o[1])>>

\* Option<InputPull>: null for None, the variant name as a string for Some
ser_OptionInputPull(o) == IF o = None_ THEN <<P("null")>> ELSE <<S(o[1])>>

\* Option<PinLevel>: null for None, true / false for Some
ser_OptionPinLevel(o) ==
    IF o = None_ THEN <<P("null")>>
    ELSE IF o[1] THEN <<P("true")>> ELSE <<P("false")>>

\* PinFunction, externally tagged: "Tag" for a unit variant, {"Tag":payload} otherwise
ser_PinFunction(f) ==
    IF f[1] = "Input"
      THEN <<P("{"), S("Input"), P(":")>> \o ser_OptionInputPull(f[2][1]) \o <<P("}")>>
    ELSE IF f[1] = "Output"
      THEN <<P("{"), S("Output"), P(":")>> \o ser_OptionPinLevel(f[2][1]) \o <<P("}")>>
    ELSE <<S(f[1])>>

\* a serializer that puts a space after the comma (pretty form), to compare against
ser_Entry_spaced(e) ==
    <<P("["), N(e[1]), P(","), P(" ")>> \o ser_PinFunction(e[2]) \o <<P("]")>>

\* (BCMPinNumber, PinFunction): a two-element array
ser_Entry(e) == <<P("["), N(e[1]), P(",")>> \o ser_PinFunction(e[2]) \o <<P("]")>>

\* the elements of a Vec, separated by commas, in order
RECURSIVE ser_Elements(_)
ser_Elements(pins) ==
    IF pins = <<>> THEN <<>>
    ELSE IF Len(pins) = 1 THEN ser_Entry(pins[1])
    ELSE ser_Entry(pins[1]) \o <<P(",")>> \o ser_Elements(Tail(pins))

\* struct GPIOConfig { configured_pins }
to_string(pins) ==
    <<P("{"), S("configured_pins"), P(":"), P("[")>>
        \o ser_Elements(pins) \o <<P("]"), P("}")>>

\* the bytes of a token sequence, as the text a reader of the file sees
TokenText(t) ==
    IF t[1] = "s" THEN "\"" \o t[2] \o "\""
    ELSE IF t[1] = "n" THEN ToString(t[2])
    ELSE t[2]

RECURSIVE as_bytes(_)
as_bytes(toks) ==
    IF toks = <<>> THEN "" ELSE TokenText(toks[1]) \o as_bytes(Tail(toks))

----------------------------------------------------------------------------
(* serde_json::from_reader over the derived Deserialize impls.              *)
(* Every parser takes the tokens not yet read and returns either            *)
(* Ok(value, tokens left) or Err(category), category being                  *)
(* serde_json::error::Category: "Syntax", "Data" or "Eof".                  *)

Ok(v, rest) == [ok |-> TRUE, val |-> v, rest |-> rest, err |-> ""]
Err(cat) == [ok |-> FALSE, val |-> <<>>, rest |-> <<>>, err |-> cat]

\* Deserializer::parse_whitespace: skip to the next significant token
RECURSIVE parse_whitespace(_)
parse_whitespace(t) ==
    IF t # <<>> /\ IsP(t[1], " ") THEN parse_whitespace(Tail(t)) ELSE t

\* Deserializer::peek_invalid_type: a well-formed value of the wrong type is a
\* Data error, anything that starts no value is a Syntax error
peek_invalid_type(tok) ==
    IF \/ tok[1] \in {"s", "n", "f"}
       \/ (tok[1] = "p" /\ tok[2] \in {"null", "true", "false", "[", "{"})
    THEN "Data" ELSE "Syntax"

\* a visitor that wraps modulo 256 instead of rejecting, to compare against
visit_u8_wrapping(n) == <<TRUE, n % (U8_MAX + 1)>>

\* the u8 visitor: visit_u64 / visit_i64 accept 0..=u8::MAX, else invalid_value
visit_u8(n) == IF n \in BCMPinNumber THEN <<TRUE, n>> ELSE <<FALSE, 0>>

\* the ? operator: an Err is returned as it is, an Ok goes on into K
Try(r, K(_)) == IF r.ok THEN K(r) ELSE r

\* Deserializer::deserialize_u8
deserialize_u8(t) ==
    LET s == parse_whitespace(t) IN
    IF s = <<>> THEN Err("Eof")
    ELSE IF s[1][1] = "n"
      THEN LET v == visit_u8(s[1][2]) IN
           IF v[1] THEN Ok(v[2], Tail(s)) ELSE Err("Data")
    ELSE Err(peek_invalid_type(s[1]))

\* Deserializer::deserialize_unit: only null
deserialize_unit(t) ==
    LET s == parse_whitespace(t) IN
    IF s = <<>> THEN Err("Eof")
    ELSE IF IsP(s[1], "null") THEN Ok(<<>>, Tail(s))
    ELSE Err(peek_invalid_type(s[1]))

\* Deserializer::deserialize_bool: only true / false
deserialize_bool(t) ==
    LET s == parse_whitespace(t) IN
    IF s = <<>> THEN Err("Eof")
    ELSE IF IsP(s[1], "true") THEN Ok(TRUE, Tail(s))
    ELSE IF IsP(s[1], "false") THEN Ok(FALSE, Tail(s))
    ELSE Err(peek_invalid_type(s[1]))

\* Deserializer::parse_object_colon
parse_object_colon(t) ==
    LET s == parse_whitespace(t) IN
    IF s = <<>> THEN Err("Eof")
    ELSE IF IsP(s[1], ":") THEN Ok(<<>>, Tail(s))
    ELSE Err("Syntax")

\* an identifier visitor that takes an unknown name for None, to compare against
variant_seed_defaulting(t, variants) ==
    LET s == parse_whitespace(t) IN
    IF s = <<>> THEN Err("Eof")
    ELSE IF s[1][1] = "s"
      THEN IF s[1][2] \in variants THEN Ok(s[1][2], Tail(s)) ELSE Ok("None", Tail(s))
    ELSE Err(peek_invalid_type(s[1]))

\* the derived variant identifier, through deserialize_identifier: a string
\* naming one of `variants`, else unknown_variant
variant_seed(t, variants) ==
    LET s == parse_whitespace(t) IN
    IF s = <<>> THEN Err("Eof")
    ELSE IF s[1][1] = "s"
      THEN IF s[1][2] \in variants THEN Ok(s[1][2], Tail(s)) ELSE Err("Data")
    ELSE Err(peek_invalid_type(s[1]))

\* the closing brace deserialize_enum expects after a {"Tag": value} variant
end_variant(t, v) ==
    LET s == parse_whitespace(t) IN
    IF s = <<>> THEN Err("Eof")
    ELSE IF IsP(s[1], "}") THEN Ok(v, Tail(s))
    ELSE Err("Syntax")

\* enum InputPull (unit variants only): "Tag", or {"Tag": null}
deserialize_InputPull(t) ==
    LET s == parse_whitespace(t) IN
    IF s = <<>> THEN Err("Eof")
    ELSE IF IsP(s[1], "{")
      THEN Try(variant_seed(Tail(s), InputPull), LAMBDA v :
           Try(parse_object_colon(v.rest), LAMBDA c :
           Try(deserialize_unit(c.rest), LAMBDA u :
           end_variant(u.rest, v.val))))
    ELSE IF s[1][1] = "s" THEN variant_seed(s, InputPull)
    ELSE Err("Syntax")

\* Option<InputPull>: null is None, anything else is read as an InputPull
deserialize_OptionInputPull(t) ==
    LET s == parse_whitespace(t) IN
    IF s # <<>> /\ IsP(s[1], "null") THEN Ok(None_, Tail(s))
    ELSE Try(deserialize_InputPull(s), LAMBDA r : Ok(Some(r.val), r.rest))

\* Option<PinLevel>: null is None, anything else is read as a bool
deserialize_OptionPinLevel(t) ==
    LET s == parse_whitespace(t) IN
    IF s # <<>> /\ IsP(s[1], "null") THEN Ok(None_, Tail(s))
    ELSE Try(deserialize_bool(s), LAMBDA r : Ok(Some(r.val), r.rest))

\* the payload of variant `tag` inside {"Tag": payload}
variant_payload(tag, t) ==
    IF tag = "Input"
      THEN Try(deserialize_OptionInputPull(t), LAMBDA r : Ok(Input(r.val), r.rest))
    ELSE IF tag = "Output"
      THEN Try(deserialize_OptionPinLevel(t), LAMBDA r : Ok(Output(r.val), r.rest))
    ELSE Try(deserialize_unit(t), LAMBDA r : Ok(Unit(tag), r.rest))

\* enum PinFunction: {"Tag": payload}, or "Tag" for a unit variant; a bare
\* "Input" / "Output" is a unit variant where a newtype variant is expected
deserialize_PinFunction(t) ==
    LET s == parse_whitespace(t) IN
    IF s = <<>> THEN Err("Eof")
    ELSE IF IsP(s[1], "{")
      THEN Try(variant_seed(Tail(s), UnitVariants \cup NewtypeVariants), LAMBDA v :
           Try(parse_object_colon(v.rest), LAMBDA c :
           Try(variant_payload(v.val, c.rest), LAMBDA p :
           end_variant(p.rest, p.val))))
    ELSE IF s[1][1] = "s"
      THEN Try(variant_seed(s, UnitVariants \cup NewtypeVariants), LAMBDA v :
           IF v.val \in NewtypeVariants THEN Err("Data")
           ELSE Ok(Unit(v.val), v.rest))
    ELSE Err("Syntax")

\* SeqAccess::next_element_seed up to the element: val is TRUE with rest at the
\* element, or FALSE with rest at the closing bracket
next_element(t, first) ==
    LET s == parse_whitespace(t) IN
    IF s = <<>> THEN Err("Eof")
    ELSE IF IsP(s[1], "]") THEN Ok(FALSE, s)
    ELSE IF IsP(s[1], ",") /\ ~first
      THEN LET s2 == parse_whitespace(Tail(s)) IN
           IF s2 = <<>> THEN Err("Eof")
           ELSE IF IsP(s2[1], "]") THEN Err("Syntax")
           ELSE Ok(TRUE, s2)
    ELSE IF first THEN Ok(TRUE, s)
    ELSE Err("Syntax")

\* Deserializer::end_seq: the closing bracket, nothing else
end_seq(t) ==
    LET s == parse_whitespace(t) IN
    IF s = <<>> THEN Err("Eof")
    ELSE IF IsP(s[1], "]") THEN Ok(<<>>, Tail(s))
    ELSE Err("Syntax")

\* (BCMPinNumber, PinFunction) through deserialize_tuple: an array of exactly
\* two; a missing element is invalid_length
deserialize_Entry(t) ==
    LET s == parse_whitespace(t) IN
    IF s = <<>> THEN Err("Eof")
    ELSE IF IsP(s[1], "[")
      THEN Try(next_element(Tail(s), TRUE), LAMBDA e1 :
           IF ~e1.val THEN Err("Data") ELSE
           Try(deserialize_u8(e1.rest), LAMBDA r1 :
           Try(next_element(r1.rest, FALSE), LAMBDA e2 :
           IF ~e2.val THEN Err("Data") ELSE
           Try(deserialize_PinFunction(e2.rest), LAMBDA r2 :
           Try(end_seq(r2.rest), LAMBDA z :
           Ok(<<r1.val, r2.val>>, z.rest))))))
    ELSE Err(peek_invalid_type(s[1]))

\* a push at the front, to compare against
push_front(v, e) == <<e>> \o v

\* Vec::push
push(v, e) == Append(v, e)

\* VecVisitor::visit_seq: push every element in the order read
RECURSIVE visit_seq(_, _, _)
visit_seq(t, first, values) ==
    Try(next_element(t, first), LAMBDA n :
    IF ~n.val THEN Ok(values, n.rest) ELSE
    Try(deserialize_Entry(n.rest), LAMBDA r :
    visit_seq(r.rest, FALSE, push(values, r.val))))

\* Vec<(BCMPinNumber, PinFunction)> through deserialize_seq
deserialize_Vec(t) ==
    LET s == parse_whitespace(t) IN
    IF s = <<>> THEN Err("Eof")
    ELSE IF IsP(s[1], "[")
      THEN Try(visit_seq(Tail(s), TRUE, <<>>), LAMBDA v :
           Try(end_seq(v.rest), LAMBDA z :
           Ok(v.val, z.rest)))
    ELSE Err(peek_invalid_type(s[1]))

\* MapAccess::next_key_seed up to the key: val is <<key>> with rest after the key
\* string, or <<>> with rest at the closing brace
next_key(t, first) ==
    LET s == parse_whitespace(t)
        k == IF s # <<>> /\ IsP(s[1], ",") /\ ~first
             THEN parse_whitespace(Tail(s)) ELSE s
    IN  IF s = <<>> THEN Err("Eof")
        ELSE IF IsP(s[1], "}") THEN Ok(<<>>, s)
        ELSE IF ~IsP(s[1], ",") /\ ~first THEN Err("Syntax")
        ELSE IF IsP(s[1], ",") /\ first THEN Err("Syntax")
        ELSE IF k = <<>> THEN Err("Eof")
        ELSE IF k[1][1] = "s" THEN Ok(<<k[1][2]>>, Tail(k))
        ELSE Err("Syntax")

\* Deserializer::end_map: the closing brace, nothing else
end_map(t) ==
    LET s == parse_whitespace(t) IN
    IF s = <<>> THEN Err("Eof")
    ELSE IF IsP(s[1], "}") THEN Ok(<<>>, Tail(s))
    ELSE Err("Syntax")

\* Deserializer::ignore_value (IgnoredAny): skip one well-formed JSON value
RECURSIVE ignore_value(_), ignore_elements(_, _), ignore_members(_, _)
ignore_value(t) ==
    LET s == parse_whitespace(t) IN
    IF s = <<>> THEN Err("Eof")
    ELSE IF s[1][1] \in {"s", "n", "f"} THEN Ok(<<>>, Tail(s))
    ELSE IF s[1][2] \in {"null", "true", "false"} THEN Ok(<<>>, Tail(s))
    ELSE IF IsP(s[1], "[") THEN ignore_elements(Tail(s), TRUE)
    ELSE IF IsP(s[1], "{") THEN ignore_members(Tail(s), TRUE)
    ELSE Err("Syntax")

ignore_elements(t, first) ==
    Try(next_element(t, first), LAMBDA n :
    IF ~n.val THEN Ok(<<>>, Tail(n.rest)) ELSE
    Try(ignore_value(n.rest), LAMBDA r :
    ignore_elements(r.rest, FALSE)))

ignore_members(t, first) ==
    Try(next_key(t, first), LAMBDA k :
    IF k.val = <<>> THEN Ok(<<>>, Tail(k.rest)) ELSE
    Try(parse_object_colon(k.rest), LAMBDA c :
    Try(ignore_value(c.rest), LAMBDA r :
    ignore_members(r.rest, FALSE))))

\* the derived visit_map of GPIOConfig: the field configured_pins once, other
\* keys skipped, a second configured_pins or none at all a Data error
RECURSIVE visit_map(_, _, _)
visit_map(t, first, field0) ==
    Try(next_key(t, first), LAMBDA k :
    IF k.val = <<>>
      THEN IF field0 = None_ THEN Err("Data") ELSE Ok(field0[1], k.rest)
    ELSE IF k.val[1] = "configured_pins"
      THEN IF field0 # None_ THEN Err("Data") ELSE
           Try(parse_object_colon(k.rest), LAMBDA c :
           Try(deserialize_Vec(c.rest), LAMBDA v :
           visit_map(v.rest, FALSE, Some(v.val))))
    ELSE Try(parse_object_colon(k.rest), LAMBDA c :
         Try(ignore_value(c.rest), LAMBDA i :
         visit_map(i.rest, FALSE, field0))))

\* the derived visit_seq of GPIOConfig: the fields in declaration order
struct_visit_seq(t) ==
    Try(next_element(t, TRUE), LAMBDA e :
    IF ~e.val THEN Err("Data") ELSE deserialize_Vec(e.rest))

\* struct GPIOConfig through deserialize_struct: an object, or an array holding
\* the fields in declaration order
deserialize_GPIOConfig(t) ==
    LET s == parse_whitespace(t) IN
    IF s = <<>> THEN Err("Eof")
    ELSE IF IsP(s[1], "{")
      THEN Try(visit_map(Tail(s), TRUE, None_), LAMBDA m :
           Try(end_map(m.rest), LAMBDA z :
           Ok(m.val, z.rest)))
    ELSE IF IsP(s[1], "[")
      THEN Try(struct_visit_seq(Tail(s)), LAMBDA v :
           Try(end_seq(v.rest), LAMBDA z :
           Ok(v.val, z.rest)))
    ELSE Err(peek_invalid_type(s[1]))

\* serde_json::from_reader: one GPIOConfig, then Deserializer::end (only
\* whitespace may follow)
from_reader(t) ==
    Try(deserialize_GPIOConfig(t), LAMBDA r :
    IF parse_whitespace(r.rest) # <<>> THEN Err("Syntax") ELSE r)

----------------------------------------------------------------------------
(* io::Result, the file, load and save *)

\* an io::Error: its ErrorKind, and whether it carries an OS error or wraps a
\* serde_json::Error (io::Error::new(kind, j))
OsError(kind) == [kind |-> kind, repr |-> "Os"]
NoError == [kind |-> "", repr |-> ""]

\* a conversion that reports every decode error as a missing file, to compare against
from_json_error_not_found(cat) == OsError("NotFound")

\* impl From<serde_json::Error> for io::Error, applied by `?`
from_json_error(cat) ==
    IF cat = "Eof" THEN [kind |-> "UnexpectedEof", repr |-> "Custom"]
    ELSE [kind |-> "InvalidData", repr |-> "Custom"]

\* what a call returned: Ok(value) or Err(error)
OkResult(op, v) == [op |-> op, status |-> "Ok", value |-> v, error |-> NoError]
ErrResult(op, e) == [op |-> op, status |-> "Err", value |-> None_, error |-> e]

NoFile == [exists |-> FALSE, contents |-> <<>>]

\* a create that opens without truncating, to compare against
File_create_keeping(f) == [f EXCEPT !.exists = TRUE]

\* File::create: create the file or truncate it to nothing
File_create(f) == [f EXCEPT !.exists = TRUE, !.contents = <<>>]

\* Write::write_all from the start of the file just created: the bytes
\* written replace what is at their positions
write_all(f, bytes) ==
    [f EXCEPT !.contents =
        bytes \o (IF Len(f.contents) > Len(bytes)
                  THEN SubSeq(f.contents, Len(bytes) + 1, Len(f.contents))
                  ELSE <<>>)]

\* GPIOConfig::save.  fault: which I/O step fails ("none", "create", "write");
\* written: how much a failing write_all got out.  Returns the result and the file.
save(pins, f, fault, written) ==
    IF fault = "create" THEN <<ErrResult("save", OsError("PermissionDenied")), f>>
    ELSE LET file == File_create(f)
             contents == to_string(pins)
         IN  IF fault = "write"
               THEN <<ErrResult("save", OsError("StorageFull")),
                      write_all(file, SubSeq(contents, 1, written))>>
             ELSE <<OkResult("save", None_), write_all(file, contents)>>

\* GPIOConfig::load.  fault: which I/O step fails ("none", "open", "read")
load(f, fault) ==
    IF ~f.exists THEN ErrResult("load", OsError("NotFound"))
    ELSE IF fault = "open" THEN ErrResult("load", OsError("PermissionDenied"))
    ELSE IF fault = "read" THEN ErrResult("load", OsError("Uncategorized"))
    ELSE LET config_ == from_reader(f.contents) IN
         IF config_.ok THEN OkResult("load", Some(config_.val))
         ELSE ErrResult("load", from_json_error(config_.err))

----------------------------------------------------------------------------
(* Debug and Display *)

\* derived Debug of Option<InputPull> / Option<PinLevel>, in pieces
Debug_Option(o, inner) ==
    IF o = None_ THEN <<"None">> ELSE <<"Some", "(", inner, ")">>

\* derived Debug of PinFunction, in pieces: the variant name, then its field in
\* parentheses
Debug_PinFunction(f) ==
    IF f[1] = "Input"
      THEN <<"Input", "(">>
             \o Debug_Option(f[2][1], IF f[2][1] = None_ THEN "" ELSE f[2][1][1])
             \o <<")">>
    ELSE IF f[1] = "Output"
      THEN <<"Output", "(">>
             \o Debug_Option(f[2][1],
                    IF f[2][1] = None_ THEN ""
                    ELSE IF f[2][1][1] THEN "true" ELSE "false")
             \o <<")">>
    ELSE <<f[1]>>

RECURSIVE concat(_)
concat(pieces) == IF pieces = <<>> THEN "" ELSE pieces[1] \o concat(Tail(pieces))

\* str::split_once('(') .unwrap_or((&full, "")) .0 : what precedes the first '('
RECURSIVE before_paren(_)
before_paren(pieces) ==
    IF pieces = <<>> \/ pieces[1] = "(" THEN <<>>
    ELSE <<pieces[1]>> \o before_paren(Tail(pieces))

\* a Display that keeps the payload, to compare against
Display_Debug(f) == concat(Debug_PinFunction(f))

\* impl fmt::Display for PinFunction
Display_PinFunction(f) == concat(before_paren(Debug_PinFunction(f)))

\* one writeln! of the loop in impl fmt::Display for GPIOConfig
RECURSIVE pin_lines(_)
pin_lines(pins) ==
    IF pins = <<>> THEN <<>>
    ELSE <<"\tBCM Pin #: " \o ToString(pins[1][1]) \o " - "
              \o Display_PinFunction(pins[1][2])>>
         \o pin_lines(Tail(pins))

\* a Display that writes the heading for an empty config too, to compare against
Display_GPIOConfig_unconditional(pins) == <<"Configured Pins:">> \o pin_lines(pins)

\* impl fmt::Display for GPIOConfig, as the lines written
Display_GPIOConfig(pins) ==
    IF pins = <<>> THEN <<"No Pins are Configured">>
    ELSE <<"Configured Pins:">> \o pin_lines(pins)

----------------------------------------------------------------------------
(* Inputs: the entries a caller pushes and the files found at the path *)

\* entries the caller pushes one at a time (duplicate channels included)
SampleEntries ==
    {<<7, Unit("None")>>, <<7, Output(Some(TRUE))>>, <<255, Input(Some("None"))>>}

\* channel numbers of the configurations drawn over every PinFunction value
SampleChannels == {0, U8_MAX}

RECURSIVE SeqsUpTo(_, _)
SeqsUpTo(S_, n) ==
    IF n = 0 THEN {<<>>}
    ELSE LET shorter == SeqsUpTo(S_, n - 1) IN
         shorter \cup {push(s, e) : s \in {x \in shorter : Len(x) = n - 1}, e \in S_}

\* the configurations of tests save_one_pin_config_input_no_pullup and
\* save_one_pin_config_output_with_level
TestConfigs == {<<<<1, Input(None_)>>>>, <<<<7, Output(Some(TRUE))>>>>}

\* every configuration of at most MaxPins entries over every PinFunction value,
\* and those of the tests
AllConfigs == SeqsUpTo(SampleChannels \X PinFunction, MaxPins) \cup TestConfigs

\* a file holding {"configured_pins":[ body ]}
Doc(body) ==
    <<P("{"), S("configured_pins"), P(":"), P("[")>> \o body \o <<P("]"), P("}")>>
\* one array element [ channel, function ]
Elem(channel, function) == <<P("["), channel, P(",")>> \o function \o <<P("]")>>
\* a function written {"tag": payload}
Tagged(tag, payload) == <<P("{"), S(tag), P(":")>> \o payload \o <<P("}")>>

\* the file of tests load_one_pin_config_input_no_pull and
\* save_one_pin_config_input_no_pullup
OnePinDoc == Doc(Elem(N(1), Tagged("Input", <<P("null")>>)))

\* configs/andrews_board.piggui as load_test_file reads it: GPIO17 an Output
\* set high, GPIO26 an Input with a PullUp, laid out with whitespace
TestFileDoc ==
    <<P("{"), P(" "), S("configured_pins"), P(":"), P(" "), P("["), P(" ")>>
        \o Elem(N(17), Tagged("Output", <<P("true")>>)) \o <<P(","), P(" ")>>
        \o Elem(N(26), <<P(" ")>> \o Tagged("Input", <<S("PullUp")>>))
        \o <<P(" "), P("]"), P(" "), P("}"), P(" ")>>

\* function tags, variant names and others
Tags == {"Ground", "None", "PWM0", "Bogus", "ground", "PullUp", "Input", "Output"}
\* payloads of every JSON type
Payloads ==
    {<<P("null")>>, <<P("true")>>, <<P("false")>>, <<N(1)>>,
     <<S("PullUp")>>, <<S("None")>>, <<S("Up")>>, <<S("true")>>,
     <<P("["), P("]")>>,
     Tagged("PullUp", <<P("null")>>), Tagged("Up", <<P("null")>>)}
\* channel number literals: in and out of the range of u8, and not integers
ChannelLiterals ==
    {N(0), N(U8_MAX), N(U8_MAX + 1), N(2 * U8_MAX + 9), N(0 - 1), N(0 - U8_MAX),
     Fl("7.0"), Fl("1.5"), S("7"), P("null")}

\* one entry whose function is the bare string "tag"
TagDocs == {Doc(Elem(N(1), <<S(t)>>)) : t \in Tags}
\* one entry whose function is {"tag": payload}
PayloadDocs == {Doc(Elem(N(1), Tagged(t, p))) : t \in Tags, p \in Payloads}
\* one Ground entry under each channel literal
ChannelDocs == {Doc(Elem(c, <<S("Ground")>>)) : c \in ChannelLiterals}
\* a well-formed entry followed by one that is not
BadSecondDocs ==
    {Doc(Elem(N(7), <<S("Ground")>>) \o <<P(",")>> \o Elem(c, f)) :
        <<c, f>> \in {<<N(1), <<S("Bogus")>>>>,
                      <<N(1), Tagged("Input", <<S("Up")>>)>>,
                      <<N(1), Tagged("Output", <<N(1)>>)>>,
                      <<N(U8_MAX + 1), <<S("Ground")>>>>}}
\* the one-pin file cut short at every token
TruncatedDocs == {SubSeq(OnePinDoc, 1, k) : k \in 0..(Len(OnePinDoc) - 1)}
\* files that are not one well-formed document of the schema
CorruptDocs ==
    {OnePinDoc \o <<P("}")>>,
     OnePinDoc \o OnePinDoc,
     <<P("@")>>,
     <<P("{"), S("configured_pins"), P("["), P("]"), P("}")>>,
     <<P("{"), P("}")>>,
     <<P("{"), S("pins"), P(":"), P("["), P("]"), P("}")>>,
     <<P("{"), S("configured_pins"), P(":"), P("["), P("]"), P(","),
       S("configured_pins"), P(":"), P("["), P("]"), P("}")>>,
     <<P("{"), S("configured_pins"), P(":"), P("null"), P("}")>>,
     Doc(Elem(N(1), <<S("Ground")>>) \o <<P(",")>>),
     Doc(<<P("["), N(1), P("]")>>),
     Doc(<<P("["), N(1), P(","), S("Ground"), P(","), N(2), P("]")>>),
     Doc(<<N(1), P(","), S("Ground")>>)}
\* files that differ from what save writes and still hold a configuration
LenientDocs ==
    {TestFileDoc,
     Doc(<<>>),
     <<P("{"), S("version"), P(":"), Fl("1.5"), P(",")>> \o Tail(OnePinDoc),
     <<P("{"), S("meta"), P(":"), P("["), P("{"), S("a"), P(":"), P("["), P("]"),
       P("}"), P(","), N(300), P("]"), P(",")>> \o Tail(OnePinDoc),
     <<P("["), P("[")>> \o Elem(N(1), <<S("Ground")>>) \o <<P("]"), P("]")>>,
     Doc(Elem(N(7), <<S("Ground")>>) \o <<P(",")>>
            \o Elem(N(7), Tagged("Output", <<P("true")>>)))}

\* the files the tests load
TestFiles == {OnePinDoc, TestFileDoc}

\* the files an outside writer leaves at the path
Documents ==
    {OnePinDoc} \cup TagDocs \cup PayloadDocs \cup ChannelDocs \cup BadSecondDocs
        \cup TruncatedDocs \cup CorruptDocs \cup LenientDocs

----------------------------------------------------------------------------
(* The state machine *)

NoCall == OkResult("none", None_)
NoSave == [valid |-> FALSE, pins |-> <<>>, shrunk |-> FALSE]

\* after construction: GPIOConfig::default(), nothing at the path yet
Init ==
    /\ config = Default
    /\ fs = NoFile
    /\ result = NoCall
    /\ lastSave = NoSave
    /\ pin = Unit("None")

\* let config = GPIOConfig::default()
NewConfig ==
    /\ config' = Default
    /\ result' = OkResult("default", None_)
    /\ UNCHANGED <<fs, lastSave, pin>>

\* the caller adds an entry to the public configured_pins
Push ==
    \E e \in SampleEntries :
        /\ Len(config) < MaxLen
        /\ config' = push(config, e)
        /\ result' = OkResult("push", None_)
        /\ UNCHANGED <<fs, lastSave, pin>>

\* config.save(filename)
Save ==
    \E fault \in {"none", "create", "write"}, written \in 0..MaxWritten :
        LET r == save(config, fs, fault, written) IN
        /\ fault # "write" => written = 0
        /\ result' = r[1]
        /\ fs' = r[2]
        /\ lastSave' =
             IF r[1].status = "Ok"
               THEN [valid |-> TRUE, pins |-> config,
                     shrunk |-> Len(fs.contents) > Len(r[2].contents)]
             ELSE IF r[2] = fs THEN lastSave
             ELSE NoSave
        /\ UNCHANGED <<config, pin>>

\* let config = GPIOConfig::load(filename): the caller's config is replaced by
\* the one loaded; on Err it has none to put in its place
Load ==
    \E fault \in {"none", "open", "read"} :
        LET r == load(fs, fault) IN
        /\ result' = r
        /\ config' = IF r.status = "Ok" THEN r.value[1] ELSE config
        /\ UNCHANGED <<fs, lastSave, pin>>

\* format!("{}", config)
Display ==
    /\ result' = OkResult("display", Some(Display_GPIOConfig(config)))
    /\ UNCHANGED <<config, fs, lastSave, pin>>

\* someone else writes the file (the tests write it with File::create and
\* write_all before loading)
ExternalWrite(docs) ==
    \E doc \in docs :
        /\ fs' = [exists |-> TRUE, contents |-> doc]
        /\ lastSave' = NoSave
        /\ result' = NoCall
        /\ UNCHANGED <<config, pin>>

\* someone else removes the file
Remove ==
    /\ fs.exists
    /\ fs' = NoFile
    /\ lastSave' = NoSave
    /\ result' = NoCall
    /\ UNCHANGED <<config, pin>>

Next ==
    \/ NewConfig
    \/ Push
    \/ Save
    \/ Load
    \/ Display
    \/ ExternalWrite(TestFiles)
    \/ Remove

Spec == Init /\ [][Next]_vars

----------------------------------------------------------------------------
(* save then load, over every PinFunction value *)

InitRoundTrip ==
    /\ config \in AllConfigs
    /\ fs = NoFile
    /\ result = NoCall
    /\ lastSave = NoSave
    /\ pin = Unit("None")

NextRoundTrip ==
    \/ Save
    \/ Load

SpecRoundTrip == InitRoundTrip /\ [][NextRoundTrip]_vars

----------------------------------------------------------------------------
(* load, over the files an outside writer leaves *)

NextLoad ==
    \/ ExternalWrite(Documents)
    \/ Load
    \/ Remove

SpecLoad == Init /\ [][NextLoad]_vars

----------------------------------------------------------------------------
(* the formatters of PinFunction, over every value *)

InitFmt ==
    /\ config = Default
    /\ fs = NoFile
    /\ result = NoCall
    /\ lastSave = NoSave
    /\ pin \in PinFunction

\* format!("{:?}", pin)
FmtDebug ==
    /\ result' = OkResult("debug", Some(concat(Debug_PinFunction(pin))))
    /\ UNCHANGED <<config, fs, lastSave, pin>>

\* format!("{}", pin)
FmtDisplay ==
    /\ result' = OkResult("fmt", Some(Display_PinFunction(pin)))
    /\ UNCHANGED <<config, fs, lastSave, pin>>

NextFmt ==
    \/ FmtDebug
    \/ FmtDisplay

SpecFmt == InitFmt /\ [][NextFmt]_vars

----------------------------------------------------------------------------
(* Properties *)

\* the call just made was a load that met no I/O failure
Loaded == result.op = "load" /\ result.error.repr # "Os"

EncodedFunction(f) ==
    IF f[1] = "Input"
      THEN "{\"Input\":"
             \o (IF f[2][1] = None_ THEN "null" ELSE "\"" \o f[2][1][1] \o "\"") \o "}"
    ELSE IF f[1] = "Output"
      THEN "{\"Output\":"
             \o (IF f[2][1] = None_ THEN "null"
                 ELSE IF f[2][1][1] THEN "true" ELSE "false") \o "}"
    ELSE "\"" \o f[1] \o "\""

RECURSIVE EncodedEntries(_)
EncodedEntries(pins) ==
    IF pins = <<>> THEN ""
    ELSE "[" \o ToString(pins[1][1]) \o "," \o EncodedFunction(pins[1][2]) \o "]"
           \o (IF Len(pins) > 1 THEN "," ELSE "") \o EncodedEntries(Tail(pins))

EncodedDocument(pins) == "{\"configured_pins\":[" \o EncodedEntries(pins) \o "]}"

\* C2: save writes exactly {"configured_pins":[[channel,function],...]} with no
\* whitespace, each function encoded as section 6 says; the two literal examples
SaveWritesDocument ==
    lastSave.valid =>
        /\ as_bytes(fs.contents) = EncodedDocument(lastSave.pins)
        /\ \A i \in 1..Len(fs.contents) : ~IsP(fs.contents[i], " ")
        /\ lastSave.pins = <<<<1, Input(None_)>>>>
             => as_bytes(fs.contents) = "{\"configured_pins\":[[1,{\"Input\":null}]]}"
        /\ lastSave.pins = <<<<7, Output(Some(TRUE))>>>>
             => as_bytes(fs.contents) = "{\"configured_pins\":[[7,{\"Output\":true}]]}"

SaveWritesDocumentWitness ==
    /\ lastSave.valid
    /\ result.op = "save"
    /\ lastSave.pins = <<<<7, Output(Some(TRUE))>>>>
    /\ as_bytes(fs.contents) = "{\"configured_pins\":[[7,{\"Output\":true}]]}"

\* the JSON type of a payload, by its first token
PayloadType(p) ==
    IF p[1][1] = "s" THEN "string"
    ELSE IF p[1][1] \in {"n", "f"} THEN "number"
    ELSE IF p[1][2] = "null" THEN "null"
    ELSE IF p[1][2] \in {"true", "false"} THEN "bool"
    ELSE IF p[1][2] = "[" THEN "array"
    ELSE "object"

\* files whose function tag names no PinFunction variant
UnknownFunctionDocs ==
    LET unknown == Tags \ (UnitVariants \cup NewtypeVariants) IN
    {Doc(Elem(N(1), <<S(t)>>)) : t \in unknown}
        \cup {Doc(Elem(N(1), Tagged(t, p))) : t \in unknown, p \in Payloads}
        \cup {Doc(Elem(N(7), <<S("Ground")>>) \o <<P(",")>> \o Elem(N(1), <<S("Bogus")>>))}

\* files whose Input payload is a string naming no InputPull variant
UnknownPullDocs ==
    {Doc(Elem(N(1), Tagged("Input", p))) :
        p \in {q \in Payloads : PayloadType(q) = "string" /\ q[1][2] \notin InputPull}}
        \cup {Doc(Elem(N(7), <<S("Ground")>>) \o <<P(",")>>
                \o Elem(N(1), Tagged("Input", <<S("Up")>>)))}

\* files whose Input payload is neither null nor a string, or whose Output
\* payload is neither null nor a boolean
WrongPayloadDocs ==
    {Doc(Elem(N(1), Tagged("Input", p))) :
        p \in {q \in Payloads : PayloadType(q) \notin {"null", "string"}}}
        \cup {Doc(Elem(N(1), Tagged("Output", p))) :
                p \in {q \in Payloads : PayloadType(q) \notin {"null", "bool"}}}
        \cup {Doc(Elem(N(7), <<S("Ground")>>) \o <<P(",")>>
                \o Elem(N(1), Tagged("Output", <<N(1)>>)))}

\* an Input payload written as the one-key object {"<InputPull variant>": null}
PullObjectDocs ==
    {Doc(Elem(N(1), Tagged("Input", Tagged(v, <<P("null")>>)))) : v \in InputPull}

\* load failed with a format error and returned no configuration
FormatFailure ==
    /\ result.status = "Err"
    /\ result.value = None_
    /\ result.error.repr = "Custom"
    /\ result.error.kind \in {"InvalidData", "UnexpectedEof"}

\* C3 as stated: an unknown function tag, an unknown pull tag, or a payload of
\* the wrong type for Input/Output makes load fail with a format error
BadTagOrPayloadFails ==
    (Loaded /\ fs.contents \in UnknownFunctionDocs \cup UnknownPullDocs \cup WrongPayloadDocs)
        => FormatFailure

\* C3 amended: the same, except that an Input payload written as the one-key
\* object {"<InputPull variant>": null} is accepted as that pull
BadTagOrPayloadFailsAmended ==
    /\ (Loaded /\ fs.contents \in
            (UnknownFunctionDocs \cup UnknownPullDocs \cup WrongPayloadDocs) \ PullObjectDocs)
          => FormatFailure
    /\ (Loaded /\ fs.contents \in PullObjectDocs)
          => (result.status = "Ok"
              /\ result.value = Some(<<<<1, Input(Some(fs.contents[12][2]))>>>>))

BadTagOrPayloadWitness ==
    /\ Loaded
    /\ fs.contents = Doc(Elem(N(7), <<S("Ground")>>) \o <<P(",")>> \o Elem(N(1), <<S("Bogus")>>))
    /\ FormatFailure
    /\ config = Default

\* the significant tokens of a file
RECURSIVE Significant(_)
Significant(toks) ==
    IF toks = <<>> THEN <<>>
    ELSE IF IsP(toks[1], " ") THEN Significant(Tail(toks))
    ELSE <<toks[1]>> \o Significant(Tail(toks))

\* the <<channel, function tag>> pairs of a file in the order they are written:
\* every integer that opens an array, with the string that follows its comma
\* (after the brace of a tagged function, if there is one)
RECURSIVE EntriesWritten(_)
EntriesWritten(toks) ==
    IF Len(toks) < 4 THEN <<>>
    ELSE IF IsP(toks[1], "[") /\ toks[2][1] = "n" /\ IsP(toks[3], ",")
      THEN <<<<toks[2][2], IF toks[4][1] = "s" THEN toks[4][2] ELSE toks[5][2]>>>>
             \o EntriesWritten(Tail(toks))
    ELSE EntriesWritten(Tail(toks))

\* the <<channel, function tag>> pairs of a configuration, in its order
EntriesHeld(pins) == [i \in 1..Len(pins) |-> <<pins[i][1], pins[i][2][1]>>]

\* C4: load returns the entries in the order of the file, save writes them in
\* the order of the sequence, and entries with the same channel all survive in
\* place; the two-entry test file loads as channel 17 then channel 26
OrderPreserved ==
    /\ (Loaded /\ result.status = "Ok")
          => EntriesHeld(result.value[1]) = EntriesWritten(Significant(fs.contents))
    /\ (Loaded /\ fs.contents = TestFileDoc)
          => result.value = Some(<<<<17, Output(Some(TRUE))>>,
                                   <<26, Input(Some("PullUp"))>>>>)
    /\ lastSave.valid
          => EntriesWritten(fs.contents) = EntriesHeld(lastSave.pins)
    /\ (Loaded /\ lastSave.valid) => result.value = Some(lastSave.pins)

OrderPreservedWitness ==
    /\ Loaded /\ lastSave.valid /\ result.status = "Ok"
    /\ Len(config) = 2
    /\ config[1][1] = config[2][1]
    /\ config[1][2] = Output(Some(TRUE))
    /\ config[2][2] = Unit("None")

\* C5: Display of a PinFunction is its variant name alone, whatever the payload
DisplayIsTagOnly ==
    result.op = "fmt" =>
        /\ result.value = Some(pin[1])
        /\ pin[1] = "Input" => result.value = Some("Input")
        /\ pin[1] = "Output" => result.value = Some("Output")

DisplayIsTagOnlyWitness ==
    /\ result.op = "fmt"
    /\ pin = Input(Some("PullUp"))
    /\ result.value = Some("Input")

\* the line of one entry: its channel number and the variant name of its function
EntryLine(e) == "\tBCM Pin #: " \o ToString(e[1]) \o " - " \o e[2][1]

\* C6 as stated: an empty config renders as the fixed message alone, a config
\* of n >= 1 entries as one line per entry, in order
DisplayOneLinePerEntry ==
    result.op = "display" =>
        IF config = <<>> THEN result.value = Some(<<"No Pins are Configured">>)
        ELSE result.value = Some([i \in 1..Len(config) |-> EntryLine(config[i])])

\* C6 amended: a config of n >= 1 entries renders as the heading line
\* "Configured Pins:" followed by one line per entry, in order
DisplayHeadingThenEntries ==
    result.op = "display" =>
        IF config = <<>> THEN result.value = Some(<<"No Pins are Configured">>)
        ELSE result.value =
                Some(<<"Configured Pins:">> \o [i \in 1..Len(config) |-> EntryLine(config[i])])

DisplayWitness ==
    /\ result.op = "display"
    /\ Len(config) = 2
    /\ config[1] = <<7, Output(Some(TRUE))>>
    /\ result.value[1][2] = "\tBCM Pin #: 7 - Output"

\* files of the classes C7 names: unknown tag, wrong payload shape, truncated
\* or corrupt document
MismatchedDocs ==
    UnknownFunctionDocs \cup UnknownPullDocs \cup WrongPayloadDocs
        \cup TruncatedDocs \cup CorruptDocs

\* the kinds of the I/O failures of opening and reading a file
IoFailure ==
    /\ result.status = "Err"
    /\ result.value = None_
    /\ result.error.repr = "Os"
    /\ result.error.kind \in {"NotFound", "PermissionDenied", "Uncategorized"}

DefaultIsEmpty == result.op = "default" => Len(config) = 0

DefaultIsEmptyWitness == result.op = "default" /\ fs.exists /\ lastSave.valid

\* C9: after successful saves the file is exactly the serialization of the
\* config last saved, whatever was there before, and a following load returns
\* that config; save leaves the config alone and load leaves the file alone
LastSaveWins ==
    /\ [](lastSave.valid => (fs.exists /\ fs.contents = to_string(lastSave.pins)))
    /\ []((Loaded /\ lastSave.valid) => result.value = Some(lastSave.pins))
    /\ [][result'.op = "save" => config' = config]_vars
    /\ [][result'.op = "load" => fs' = fs]_vars

LastSaveWinsWitness ==
    /\ Loaded /\ lastSave.valid /\ lastSave.shrunk
    /\ result.value = Some(lastSave.pins)
    /\ Len(lastSave.pins) = 1

\* files whose entry carries a channel literal outside 0..255 or no integer
BadChannelDocs ==
    {Doc(Elem(c, <<S("Ground")>>)) :
        c \in {l \in ChannelLiterals : ~(l[1] = "n" /\ l[2] \in 0..255)}}
        \cup {Doc(Elem(N(7), <<S("Ground")>>) \o <<P(",")>>
                \o Elem(N(256), <<S("Ground")>>))}

\* C10: every channel of a loaded config lies in 0..255; a channel literal
\* that is negative, above 255 or no integer makes load fail with a format
\* error, never wrapped or clamped
ChannelInRange ==
    /\ (Loaded /\ result.status = "Ok")
          => \A i \in 1..Len(result.value[1]) : result.value[1][i][1] \in 0..255
    /\ (Loaded /\ fs.contents \in BadChannelDocs)
          => (FormatFailure /\ result.error.kind = "InvalidData")

ChannelInRangeWitness ==
    /\ Loaded
    /\ fs.contents = Doc(Elem(N(256), <<S("Ground")>>))
    /\ FormatFailure

====
